---- MODULE Spec2Model ----
(***************************************************************************)
(* Municipality code harmonization of get_municipality_population_ssb_api  *)
(* and get_ssb_data_api: the KLASS change table, the documented special    *)
(* case edits, the forward and backward replay of the changes over a       *)
(* column of municipality codes, and the closure loop.                     *)
(*                                                                         *)
(* A change table is a sequence of rows [munid_from, munid_to, date]; the  *)
(* row order is the order of the rows in the data frame.  A column of      *)
(* codes (a pandas Series) is a function from row label to code.  Dates    *)
(* are integers that compare like the dates they stand for (yyyymmdd for   *)
(* the real ones).                                                         *)
(***************************************************************************)
EXTENDS Integers, Sequences, FiniteSets, TLC

VARIABLES munichanges, municlean, until, munid2020, passes,
          seeds, t5012, loop_initlen, loop_diff,
          csv, raised, warnings,
          pop, kept, out,
          inc, df_final,
          municode, changedates,
          call,
          checkpoints,
          windows, stationrun, country

\* the closure loop of get_ssb_data_api
closureVars == <<seeds, t5012, loop_initlen, loop_diff>>

\* the change rows as downloaded, the exception that ended the run (if any)
\* and the warnings logged
loadVars == <<csv, raised, warnings>>

\* the population table, its retained rows and the grouped output
popVars == <<pop, kept, out>>

\* the income table and the grouped output
incomeVars == <<inc, df_final>>

\* the walkback dictionary of get_ssb_data_api and the dates its loop has
\* still to visit
walkbackVars == <<municode, changedates>>

\* a call of a retrying request helper: which helper, the loop variable
\* attempt, the responses received so far, and how the call stands
retryVars == <<call>>

\* the checkpoint directory of a download script over its runs: the files
\* written, the run, the loop variable and what the last fetch met
checkpointVars == <<checkpoints>>

\* the generator iter_100h_windows, the station list of task_download_all
\* and the thread pool of fetch_country
downloadVars == <<windows, stationrun, country>>

otherVars == <<walkbackVars, retryVars, checkpointVars, downloadVars>>

vars == <<munichanges, municlean, until, munid2020, passes,
          closureVars, loadVars, popVars, incomeVars, otherVars>>

\* the parts of the state a run has not touched (yet)
ClosureIdle == seeds = {} /\ t5012 = {} /\ loop_initlen = 0 /\ loop_diff = 0
LoadIdle == csv = <<>> /\ raised = "none" /\ warnings = {}
PopIdle == pop = <<>> /\ kept = <<>> /\ out = <<>>
IncomeIdle == inc = <<>> /\ df_final = {}
WalkbackIdle == municode = <<>> /\ changedates = {}
RetryIdle == call = <<>>
CheckpointIdle == checkpoints = <<>>
DownloadIdle == windows = <<>> /\ stationrun = <<>> /\ country = <<>>
OtherIdle == WalkbackIdle /\ RetryIdle /\ CheckpointIdle /\ DownloadIdle

----------------------------------------------------------------------------
(* Bounds and universes *)

MaxEvents == 2
NumCodes == 3
MaxDate == 4

\* the anchor of the replay harness: dates 1..ReplayAnchor are on or before
\* the anchor, later ones after it (the default of "until" and "after")
ReplayAnchor == 2

Codes == 1..NumCodes
Dates == 1..MaxDate

Event(f, t, d) == [munid_from |-> f, munid_to |-> t, date |-> d]

\* every sequence over S of length at most n
RECURSIVE SeqsUpTo(_, _)
SeqsUpTo(S, n) ==
  IF n = 0 THEN {<<>>}
  ELSE LET shorter == SeqsUpTo(S, n - 1)
       IN shorter \cup {Append(s, x) : s \in {t \in shorter : Len(t) = n - 1}, x \in S}

----------------------------------------------------------------------------
(* pandas helpers *)

\* changes.loc[changes["date"] == d]
RowsAt(changes, d) == SelectSeq(changes, LAMBDA e : e.date = d)

\* rows.set_index(key)[val].to_dict(): a later row with the same key
\* overwrites an earlier one
ToDict(rows, key, val) ==
  LET keys == {rows[i][key] : i \in DOMAIN rows}
      last(k) == CHOOSE i \in DOMAIN rows :
                   /\ rows[i][key] = k
                   /\ \A j \in DOMAIN rows : rows[j][key] = k => j <= i
  IN [k \in keys |-> rows[last(k)][val]]

RECURSIVE Lookup(_, _, _)
Lookup(mapping, v, fuel) ==
  IF fuel = 0 \/ v \notin DOMAIN mapping THEN v
  ELSE Lookup(mapping, mapping[v], fuel - 1)

ReplaceChained(series, mapping) ==
  [r \in DOMAIN series |-> Lookup(mapping, series[r], Cardinality(DOMAIN mapping))]

\* Series.replace(dict): every entry is matched once, against the value it
\* had before the call; a value written by the call is not matched again
Replace(series, mapping) ==
  [r \in DOMAIN series |->
     IF series[r] \in DOMAIN mapping THEN mapping[series[r]] ELSE series[r]]

\* the tables with the rows of df in some order
Reorderings(df) ==
  {[k \in DOMAIN df |-> df[f[k]]] : f \in Permutations(DOMAIN df)}

\* df.sort_values("date"): the default sort (quicksort) is not stable, so rows
\* of one date come out in an order the build decides
sort_values_date(df) ==
  {p \in Reorderings(df) : \A k, l \in DOMAIN p : k < l => p[k].date <= p[l].date}

SetMin(S) == CHOOSE x \in S : \A y \in S : x <= y
SetMax(S) == CHOOSE x \in S : \A y \in S : x >= y

----------------------------------------------------------------------------
(* roll_forward_codes *)

ForwardDatesStrict(changes, upto) ==
  {changes[i].date : i \in {j \in DOMAIN changes : changes[j].date < upto}}

\* changes[changes["date"] <= until]["date"].unique()
ForwardDates(changes, upto) ==
  {changes[i].date : i \in {j \in DOMAIN changes : changes[j].date <= upto}}

NextForwardDateDescending(dates) == SetMax(dates)

\* np.sort(...): the loop visits the dates in ascending order
NextForwardDate(dates) == SetMin(dates)

\* changes.loc[changes["date"] == d].set_index("munid_from")["munid_to"]
ForwardMapping(changes, d) == ToDict(RowsAt(changes, d), "munid_from", "munid_to")

\* the forward loop over the dates still to visit
RECURSIVE ForwardLoop(_, _, _)
ForwardLoop(result, changes, dates) ==
  IF dates = {} THEN result
  ELSE LET d == NextForwardDate(dates)
       IN ForwardLoop(Replace(result, ForwardMapping(changes, d)), changes, dates \ {d})

roll_forward_codes(series_codes, changes, upto) ==
  ForwardLoop(series_codes, changes, ForwardDates(changes, upto))

----------------------------------------------------------------------------
(* roll_back_codes *)

BackwardDatesInclusive(changes, after) ==
  {changes[i].date : i \in {j \in DOMAIN changes : changes[j].date >= after}}

\* changes[changes["date"] > after]["date"].unique()
BackwardDates(changes, after) ==
  {changes[i].date : i \in {j \in DOMAIN changes : changes[j].date > after}}

NextBackwardDateAscending(dates) == SetMin(dates)

\* np.sort(...)[::-1]: the loop visits the dates in descending order
NextBackwardDate(dates) == SetMax(dates)

BackwardMappingNotReversed(changes, d) ==
  ToDict(RowsAt(changes, d), "munid_from", "munid_to")

\* changes.loc[changes["date"] == d].set_index("munid_to")["munid_from"]
BackwardMapping(changes, d) == ToDict(RowsAt(changes, d), "munid_to", "munid_from")

\* the backward loop over the dates still to visit
RECURSIVE BackwardLoop(_, _, _)
BackwardLoop(result, changes, dates) ==
  IF dates = {} THEN result
  ELSE LET d == NextBackwardDate(dates)
       IN BackwardLoop(Replace(result, BackwardMapping(changes, d)), changes, dates \ {d})

roll_back_codes(series_codes, changes, after) ==
  BackwardLoop(series_codes, changes, BackwardDates(changes, after))

----------------------------------------------------------------------------
(* Replay harness: roll_forward_codes and roll_back_codes called on a      *)
(* column that holds every code once, over an arbitrary change table       *)

IdentityColumn(S) == [c \in S |-> c]

GenericEvents == {Event(f, t, d) : f \in Codes, t \in Codes, d \in Dates} \
                 {Event(c, c, d) : c \in Codes, d \in Dates}

InitReplay ==
  /\ munichanges \in SeqsUpTo(GenericEvents, MaxEvents)
  /\ municlean = munichanges
  /\ until = ReplayAnchor
  /\ munid2020 = IdentityColumn(Codes)
  /\ passes = <<>>
  /\ ClosureIdle /\ LoadIdle /\ PopIdle /\ IncomeIdle
  /\ OtherIdle

\* result = roll_forward_codes(column, changes, until)
RollForward ==
  /\ passes \in {<<>>, <<"forward">>, <<"forward", "back">>}
  /\ munid2020' = roll_forward_codes(munid2020, municlean, until)
  /\ passes' = Append(passes, "forward")
  /\ UNCHANGED <<munichanges, municlean, until>>
  /\ UNCHANGED <<closureVars, loadVars, popVars, incomeVars>>
  /\ UNCHANGED otherVars

\* result = roll_back_codes(column, changes, after)
RollBack ==
  /\ passes \in {<<>>, <<"forward">>, <<"forward", "back", "forward">>}
  /\ munid2020' = roll_back_codes(munid2020, municlean, until)
  /\ passes' = Append(passes, "back")
  /\ UNCHANGED <<munichanges, municlean, until>>
  /\ UNCHANGED <<closureVars, loadVars, popVars, incomeVars>>
  /\ UNCHANGED otherVars

NextReplay == RollForward \/ RollBack

SpecReplay == InitReplay /\ [][NextReplay]_vars

----------------------------------------------------------------------------
(* apply_special_case_edits *)

Date_2020_01_01 == 20200101
Date_2024_01_01 == 20240101

drop_mask_without_5056(e) ==
  \/ e.munid_from = 114 /\ e.munid_to = 128
  \/ e.munid_from = 412 /\ e.munid_to = 403
  \/ e.munid_from = 720 /\ e.munid_to = 704
  \/ e.munid_from = 1850 /\ e.munid_to = 1806
  \/ e.munid_from = 5012 /\ e.munid_to = 5055

drop_mask_with_5059(e) ==
  \/ e.munid_from = 114 /\ e.munid_to = 128
  \/ e.munid_from = 412 /\ e.munid_to = 403
  \/ e.munid_from = 720 /\ e.munid_to = 704
  \/ e.munid_from = 1850 /\ e.munid_to = 1806
  \/ e.munid_from = 5012

drop_mask(e) ==
  \/ e.munid_from = 114 /\ e.munid_to = 128
  \/ e.munid_from = 412 /\ e.munid_to = 403
  \/ e.munid_from = 720 /\ e.munid_to = 704
  \/ e.munid_from = 1850 /\ e.munid_to = 1806
  \/ e.munid_from = 5012 /\ e.munid_to = 5056
  \/ e.munid_from = 5012 /\ e.munid_to = 5055

mask_haram_without_1534(e) ==
  e.munid_from = 1507 /\ e.munid_to = 1580

mask_haram(e) ==
  \/ e.munid_from = 1534 /\ e.munid_to = 1507
  \/ e.munid_from = 1507 /\ e.munid_to = 1580

\* the row concatenated after the Haram rows are dropped
HaramEdge == Event(1534, 1580, Date_2024_01_01)

\* the tables apply_special_case_edits can return for munichanges
apply_special_case_edits(changes) ==
  LET dropped == SelectSeq(changes, LAMBDA e : ~drop_mask(e))
      noharam == SelectSeq(dropped, LAMBDA e : ~mask_haram(e))
  IN sort_values_date(Append(noharam, HaramEdge))

----------------------------------------------------------------------------
(* closure loop of get_ssb_data_api (t5012) *)

\* np.unique of the munid_from and munid_to of the rows that touch t
TouchedBy(t, changes) ==
  UNION {{changes[i].munid_from, changes[i].munid_to} :
           i \in {j \in DOMAIN changes :
                    changes[j].munid_from \in t \/ changes[j].munid_to \in t}}

RECURSIVE ClosureLoop(_, _, _)
ClosureLoop(t, diff, changes) ==
  IF diff > 0
  THEN LET initlen == Cardinality(t)
           grown == TouchedBy(t, changes)
       IN ClosureLoop(grown, Cardinality(grown) - initlen, changes)
  ELSE t

closure(seed_codes, changes) ==
  ClosureLoop(seed_codes, Cardinality(seed_codes), changes)

----------------------------------------------------------------------------
(* The closure loop, one iteration per step, for any seed list and table   *)

MaxEdges == 3

\* change rows between the codes (the loop does not read the date)
ClosureEvents == {Event(f, t, ReplayAnchor) : f \in Codes, t \in Codes} \
                 {Event(c, c, ReplayAnchor) : c \in Codes}

\* initlen = 0; t5012 = [seeds]; diff = len(t5012) - initlen
InitClosure ==
  /\ munichanges \in SeqsUpTo(ClosureEvents, MaxEdges)
  /\ seeds \in (SUBSET Codes) \ {{}}
  /\ t5012 = seeds
  /\ loop_initlen = 0
  /\ loop_diff = Cardinality(seeds)
  /\ municlean = <<>>
  /\ until = ReplayAnchor
  /\ munid2020 = <<>>
  /\ passes = <<>>
  /\ LoadIdle /\ PopIdle /\ IncomeIdle
  /\ OtherIdle

\* one pass through the body of "while diff > 0"
ClosureStep ==
  /\ loop_diff > 0
  /\ loop_initlen' = Cardinality(t5012)
  /\ t5012' = TouchedBy(t5012, munichanges)
  /\ loop_diff' = Cardinality(t5012') - loop_initlen'
  /\ UNCHANGED <<munichanges, municlean, until, munid2020, passes, seeds>>
  /\ UNCHANGED <<loadVars, popVars, incomeVars>>
  /\ UNCHANGED otherVars

NextClosure == ClosureStep

SpecClosure == InitClosure /\ [][NextClosure]_vars

\* the loop is not preempted: an enabled iteration is eventually run
SpecClosureFair == SpecClosure /\ WF_vars(ClosureStep)

----------------------------------------------------------------------------
(* build_population_output: KLASS changes, special case edits, forward to  *)
(* the anchor, backward to the anchor                                      *)

MaxRows == 4

\* changes the sources document: Haram 1534 merged into 1507 in 2020 and 1507
\* split into 1580 and 1508 in 2024; 5012 split across 5055, 5056, 5059 in 2020
KnownChanges ==
  { Event(1534, 1507, Date_2020_01_01),
    Event(1507, 1580, Date_2024_01_01),
    Event(1507, 1508, Date_2024_01_01),
    Event(5012, 5056, Date_2020_01_01),
    Event(5012, 5055, Date_2020_01_01),
    Event(5012, 5059, Date_2020_01_01) }

RealCodes ==
  UNION {{e.munid_from, e.munid_to} : e \in KnownChanges \cup {HaramEdge}}

NoRepeatedRow(df) == \A k, l \in DOMAIN df : k /= l => df[k] /= df[l]

Init ==
  /\ munichanges \in {df \in SeqsUpTo(KnownChanges, MaxRows) : NoRepeatedRow(df)}
  /\ municlean = <<>>
  /\ until \in {Date_2020_01_01, Date_2024_01_01}
  /\ munid2020 = IdentityColumn(RealCodes)
  /\ passes = <<>>
  /\ ClosureIdle /\ LoadIdle /\ PopIdle /\ IncomeIdle
  /\ OtherIdle

\* municlean = apply_special_case_edits(changes)
ApplySpecialCaseEdits ==
  /\ passes = <<>>
  /\ municlean' \in apply_special_case_edits(munichanges)
  /\ passes' = <<"edit">>
  /\ UNCHANGED <<munichanges, until, munid2020>>
  /\ UNCHANGED <<closureVars, loadVars, popVars, incomeVars>>
  /\ UNCHANGED otherVars

\* pop["munid2020"] = roll_forward_codes(pop["munid"], municlean, until=...)
ForwardToAnchor ==
  /\ passes = <<"edit">>
  /\ munid2020' = roll_forward_codes(munid2020, municlean, until)
  /\ passes' = <<"edit", "forward">>
  /\ UNCHANGED <<munichanges, municlean, until>>
  /\ UNCHANGED <<closureVars, loadVars, popVars, incomeVars>>
  /\ UNCHANGED otherVars

\* pop["munid2020"] = roll_back_codes(pop["munid2020"], municlean, after=...)
BackwardToAnchor ==
  /\ passes = <<"edit", "forward">>
  /\ munid2020' = roll_back_codes(munid2020, municlean, until)
  /\ passes' = <<"edit", "forward", "back">>
  /\ UNCHANGED <<munichanges, municlean, until>>
  /\ UNCHANGED <<closureVars, loadVars, popVars, incomeVars>>
  /\ UNCHANGED otherVars

Next == ApplySpecialCaseEdits \/ ForwardToAnchor \/ BackwardToAnchor

Spec == Init /\ [][Next]_vars

----------------------------------------------------------------------------
(* Properties of the replay (SpecReplay) *)

AllCodes == IdentityColumn(Codes)

Forwarded(changes) == roll_forward_codes(AllCodes, changes, until)

ForwardedAndBack(changes) == roll_back_codes(Forwarded(changes), changes, until)

OnOrBefore(changes) == SelectSeq(changes, LAMBDA e : e.date <= until)

After(changes) == SelectSeq(changes, LAMBDA e : e.date > until)

RemoveRow(changes, i) ==
  [k \in 1..(Len(changes) - 1) |-> IF k < i THEN changes[k] ELSE changes[k + 1]]

\* the codes reachable from S along the events, from_code to to_code
RECURSIVE ReachableFrom(_, _)
ReachableFrom(S, changes) ==
  LET next == S \cup {changes[i].munid_to :
                        i \in {j \in DOMAIN changes : changes[j].munid_from \in S}}
  IN IF next = S THEN S ELSE ReachableFrom(next, changes)

\* no code is reachable back to itself through a chain of events
Acyclic(changes) ==
  \A i \in DOMAIN changes :
    changes[i].munid_from \notin ReachableFrom({changes[i].munid_to}, changes)

\* rows i, j are a chain A -> B (date1), B -> C (date2), date1 < date2 <= until
IsChain(i, j) ==
  /\ i /= j
  /\ municlean[i].munid_to = municlean[j].munid_from
  /\ municlean[i].date < municlean[j].date
  /\ municlean[j].date <= until

\* no other row takes A away on or before date1, B away between date1 and
\* date2, or C away after date2 (up to the anchor)
ChainUndisturbed(i, j) ==
  \A k \in DOMAIN municlean \ {i, j} :
    LET e == municlean[k]
    IN /\ ~(e.munid_from = municlean[i].munid_from /\ e.date <= municlean[i].date)
       /\ ~(/\ e.munid_from = municlean[j].munid_from
            /\ e.date > municlean[i].date
            /\ e.date <= municlean[j].date)
       /\ ~(/\ e.munid_from = municlean[j].munid_to
            /\ e.date > municlean[j].date
            /\ e.date <= until)

\* C1: chain composition.  For two events A -> B (date1) and B -> C (date2)
\* with date1 < date2 <= anchor, and no other event that rewrites A, B or C
\* on the way (in particular when no other event touches A, B or C), forward
\* replay maps the row carrying A to C.
C1_ChainComposition ==
  passes = <<"forward">> =>
    \A i, j \in DOMAIN municlean :
      IsChain(i, j) /\ ChainUndisturbed(i, j) =>
        munid2020[municlean[i].munid_from] = municlean[j].munid_to

C1_Witness ==
  /\ passes = <<"forward">>
  /\ \E i, j \in DOMAIN municlean :
       /\ IsChain(i, j) /\ ChainUndisturbed(i, j)
       /\ Cardinality({municlean[i].munid_from, municlean[i].munid_to,
                       municlean[j].munid_to}) = 3
       /\ munid2020[municlean[i].munid_from] = municlean[j].munid_to

----------------------------------------------------------------------------
\* the reference of C2: the events dated on or before the anchor applied one
\* at a time, in an ascending (date, munid_from) order
ComesAfter(a, b) ==
  \/ a.date > b.date
  \/ a.date = b.date /\ a.munid_from > b.munid_from

AscendingOrders(changes) ==
  {p \in Reorderings(changes) :
     \A k, l \in DOMAIN p : k < l => ~ComesAfter(p[k], p[l])}

RECURSIVE ApplyEach(_, _)
ApplyEach(result, events) ==
  IF events = <<>> THEN result
  ELSE ApplyEach([r \in DOMAIN result |->
                    IF result[r] = Head(events).munid_from
                    THEN Head(events).munid_to ELSE result[r]],
                 Tail(events))

OneAtATime(changes) ==
  {ApplyEach(AllCodes, p) : p \in AscendingOrders(OnOrBefore(changes))}

NoSameDateChain(changes) ==
  \A i, j \in DOMAIN changes :
    (changes[i].date = changes[j].date /\ changes[i].date <= until) =>
      changes[i].munid_to /= changes[j].munid_from

----------------------------------------------------------------------------
\* C3: forward replay applies exactly the events dated on or before the
\* anchor: an event dated on the anchor date is applied (it rewrites its
\* from_code when no other event rewrites that code by then), and adding or
\* removing an event dated after the anchor never changes the result.
C3_ForwardUsesEventsUpToAnchor ==
  passes = <<"forward">> =>
    /\ \A i \in DOMAIN municlean :
         ( /\ municlean[i].date = until
           /\ \A k \in DOMAIN municlean \ {i} :
                ~(/\ municlean[k].munid_from = municlean[i].munid_from
                  /\ municlean[k].date <= until) )
         => munid2020[municlean[i].munid_from] = municlean[i].munid_to
    /\ \A i \in DOMAIN municlean :
         municlean[i].date > until => Forwarded(RemoveRow(municlean, i)) = munid2020
    /\ \A e \in GenericEvents :
         e.date > until => Forwarded(Append(municlean, e)) = munid2020
    /\ munid2020 = Forwarded(OnOrBefore(municlean))

C3_Witness ==
  /\ passes = <<"forward">>
  /\ \E i, j \in DOMAIN municlean :
       /\ municlean[i].date = until
       /\ municlean[j].date > until
       /\ municlean[j].munid_from = municlean[i].munid_to
       /\ munid2020[municlean[i].munid_from] = municlean[i].munid_to

----------------------------------------------------------------------------
\* C4: backward replay uses only the events dated after the anchor, latest
\* date first.  With a single edge X -> Y after the anchor the row carrying Y
\* becomes X and the row carrying X stays X; with X -> Y and later Y -> Z
\* (the only events after the anchor) the row carrying Z becomes X.
C4_BackwardSymmetry ==
  passes = <<"back">> =>
    /\ munid2020 = roll_back_codes(AllCodes, After(municlean), until)
    /\ \A i \in DOMAIN municlean :
         ( /\ municlean[i].date > until
           /\ \A k \in DOMAIN municlean \ {i} : municlean[k].date <= until )
         => /\ munid2020[municlean[i].munid_to] = municlean[i].munid_from
            /\ munid2020[municlean[i].munid_from] = municlean[i].munid_from
    /\ \A i, j \in DOMAIN municlean :
         ( /\ municlean[i].date > until
           /\ municlean[i].date < municlean[j].date
           /\ municlean[i].munid_to = municlean[j].munid_from
           /\ \A k \in DOMAIN municlean \ {i, j} : municlean[k].date <= until )
         => munid2020[municlean[j].munid_to] = municlean[i].munid_from

C4_Witness ==
  /\ passes = <<"back">>
  /\ \E i, k \in DOMAIN municlean :
       /\ municlean[i].date > until
       /\ municlean[k].date <= until
       /\ municlean[k].munid_to = municlean[i].munid_to
       /\ Len(After(municlean)) = 1
       /\ munid2020[municlean[i].munid_to] = municlean[i].munid_from
       /\ munid2020[municlean[i].munid_from] = municlean[i].munid_from

----------------------------------------------------------------------------
\* the column after one application of the replay, for the passes applied
MappedOnce ==
  IF passes = <<"forward", "forward">> THEN Forwarded(municlean)
  ELSE ForwardedAndBack(municlean)

\* C5 as stated: for every event list, the anchor code is a fixed point of the
\* replay: a second forward pass, and a second forward + backward pass, change
\* nothing.  Stated here only for the event lists without a cycle and
\* without two events of one date that chain (there the replay is the
\* one-at-a-time replay), which is already refuted.
C5_IdempotentEveryList ==
  ( /\ passes \in {<<"forward", "forward">>, <<"forward", "back", "forward", "back">>}
    /\ Acyclic(municlean)
    /\ NoSameDateChain(municlean) )
    => munid2020 = MappedOnce

\* on each side of the anchor, an event that ends at the code another event
\* starts from is dated strictly before that other event
LinksAscend(changes) ==
  \A i, j \in DOMAIN changes :
    ( /\ changes[i].munid_to = changes[j].munid_from
      /\ (changes[i].date <= until <=> changes[j].date <= until) )
    => changes[i].date < changes[j].date

\* no code is the from_code of an event on or before the anchor and of an
\* event after it
RetiredOnOneSide(changes) ==
  \A i, j \in DOMAIN changes :
    changes[i].munid_from = changes[j].munid_from =>
      (changes[i].date <= until <=> changes[j].date <= until)

\* C5 (amended): the anchor code is a fixed point of the replay (forward
\* alone, and forward followed by backward) for every event list in which,
\* on each side of the anchor, every chain link is dated strictly ascending
\* (an event ending at a code precedes every event starting from it) and no
\* code is retired both before and after the anchor.
C5_IdempotentWhenLinksAscend ==
  ( /\ passes \in {<<"forward", "forward">>, <<"forward", "back", "forward", "back">>}
    /\ LinksAscend(municlean)
    /\ RetiredOnOneSide(municlean) )
    => munid2020 = MappedOnce

C5_Witness ==
  /\ passes = <<"forward", "back", "forward", "back">>
  /\ LinksAscend(municlean)
  /\ RetiredOnOneSide(municlean)
  /\ \E i, j \in DOMAIN municlean :
       /\ municlean[i].date <= until
       /\ municlean[j].date > until
       /\ munid2020[municlean[i].munid_from] = municlean[i].munid_to
       /\ munid2020[municlean[j].munid_to] = municlean[j].munid_from
  /\ munid2020 = MappedOnce

----------------------------------------------------------------------------
\* C7: determinism.  The code each row is mapped to by the forward pass, and
\* by the forward and backward passes, does not depend on the order of the
\* event rows in the table.
C7_RowOrderIndependent ==
  /\ passes = <<"forward">> =>
       \A p \in Reorderings(municlean) : Forwarded(p) = munid2020
  /\ passes = <<"forward", "back">> =>
       \A p \in Reorderings(municlean) : ForwardedAndBack(p) = munid2020

----------------------------------------------------------------------------
\* C8: a code that is not the from_code of an event dated on or before the
\* anchor and not the to_code of an event dated after it keeps its identity
\* mapping through forward and backward replay, whatever other events exist.
Untouched(c) ==
  \A i \in DOMAIN municlean :
    /\ ~(municlean[i].date <= until /\ municlean[i].munid_from = c)
    /\ ~(municlean[i].date > until /\ municlean[i].munid_to = c)

C8_UntouchedKeepsIdentity ==
  passes = <<"forward", "back">> =>
    \A c \in Codes : Untouched(c) => munid2020[c] = c

C8_Witness ==
  /\ passes = <<"forward", "back">>
  /\ \E c \in Codes :
       /\ Untouched(c)
       /\ \E i, j \in DOMAIN municlean :
            /\ municlean[i].munid_to = c /\ municlean[i].date <= until
            /\ municlean[j].munid_from = c /\ municlean[j].date > until
       /\ munid2020[c] = c

----------------------------------------------------------------------------
(* Properties of the population build (Spec) *)

HasRow(df, e) == \E i \in DOMAIN df : df[i] = e

\* m is the from_code of a recorded change dated on or before the anchor
RetiredByAnchor(m) ==
  \E i \in DOMAIN munichanges :
    munichanges[i].date <= until /\ munichanges[i].munid_from = m

\* m first appears as the to_code of a recorded change dated after the anchor
IntroducedAfterAnchor(m) ==
  /\ \E i \in DOMAIN munichanges :
       munichanges[i].date > until /\ munichanges[i].munid_to = m
  /\ \A i \in DOMAIN munichanges :
       munichanges[i].date <= until =>
         m \notin {munichanges[i].munid_from, munichanges[i].munid_to}

\* C6: after the forward and the backward pass to 2020-01-01, every munid of
\* the population output is a code of the 2020-01-01 geography: not a code
\* retired by a recorded change dated on or before the anchor, and not a code
\* first introduced by a change dated after it.
C6_OutputInAnchorGeography ==
  (passes = <<"edit", "forward", "back">> /\ until = Date_2020_01_01) =>
    \A r \in RealCodes :
      ~RetiredByAnchor(munid2020[r]) /\ ~IntroducedAfterAnchor(munid2020[r])

----------------------------------------------------------------------------
\* C9: with the recorded events (5012,5056), (5012,5055), (5012,5059) of
\* 2020-01-01, in any row order, and the special case edits applied, forward
\* replay to 2020-01-01 maps 5012 to 5059, and the closure of {5012} over the
\* recorded changes is {5012, 5055, 5056, 5059}.
Has5012Split ==
  /\ HasRow(munichanges, Event(5012, 5056, Date_2020_01_01))
  /\ HasRow(munichanges, Event(5012, 5055, Date_2020_01_01))
  /\ HasRow(munichanges, Event(5012, 5059, Date_2020_01_01))

C9_Split5012 ==
  (passes = <<"edit", "forward">> /\ until = Date_2020_01_01 /\ Has5012Split) =>
    /\ munid2020[5012] = 5059
    /\ closure({5012}, munichanges) = {5012, 5055, 5056, 5059}

C9_Witness ==
  /\ passes = <<"edit", "forward">>
  /\ until = Date_2020_01_01
  /\ Has5012Split
  /\ munichanges[Len(munichanges)] /= Event(5012, 5059, Date_2020_01_01)
  /\ munid2020[5012] = 5059
  /\ closure({5012}, munichanges) = {5012, 5055, 5056, 5059}

----------------------------------------------------------------------------
\* C10: with 1534 -> 1507 (2020-01-01) suppressed and 1534 -> 1580
\* (2024-01-01) injected by apply_special_case_edits, the row carrying 1534 is
\* mapped to 1580 by the forward replay to 2024-01-01.
C10_Haram1534To1580 ==
  (passes = <<"edit", "forward">> /\ until = Date_2024_01_01) =>
    /\ ~HasRow(municlean, Event(1534, 1507, Date_2020_01_01))
    /\ HasRow(municlean, HaramEdge)
    /\ munid2020[1534] = 1580

C10_Witness ==
  /\ passes = <<"edit", "forward">>
  /\ until = Date_2024_01_01
  /\ HasRow(munichanges, Event(1534, 1507, Date_2020_01_01))
  /\ HasRow(munichanges, Event(1507, 1508, Date_2024_01_01))
  /\ munid2020[1534] = 1580

----------------------------------------------------------------------------
(* Properties of the closure loop (SpecClosure) *)

\* the codes connected to S by a chain of events read as undirected, S included
RECURSIVE Component(_, _)
Component(S, changes) ==
  LET next == S \cup {changes[i].munid_to :
                        i \in {j \in DOMAIN changes : changes[j].munid_from \in S}}
                 \cup {changes[i].munid_from :
                        i \in {j \in DOMAIN changes : changes[j].munid_to \in S}}
  IN IF next = S THEN S ELSE Component(next, changes)

\* C11: for every seed set and event list the closure loop ends with exactly
\* the codes connected to some seed by a chain of edges read as undirected,
\* the seeds included.
C11_ClosureIsComponent ==
  loop_diff <= 0 => t5012 = Component(seeds, munichanges)

\* C12: the working set of the closure loop only grows: the set after an
\* iteration is a superset of the set before it.
C12_SetOnlyGrows == [][t5012 \subseteq t5012']_vars

\* C12 (termination part): the closure loop ends
C12_LoopEnds == <>(loop_diff <= 0)

----------------------------------------------------------------------------
(* The closure loop followed by the special-case edits, on the events of 114 *)

Date_1986_01_01 == 19860101

\* events around the suppressed edge 114 -> 128: a second successor of 114 and
\* a later merge that joins 128 to it by another path
OverrideEvents ==
  { Event(114, 128, Date_1986_01_01),
    Event(114, 105, Date_1986_01_01),
    Event(128, 105, Date_2020_01_01),
    Event(105, 3003, Date_2020_01_01) }

OverrideCodes ==
  UNION {{e.munid_from, e.munid_to} : e \in OverrideEvents \cup {HaramEdge}}

\* the closure loop is seeded and reads munichanges; municlean is made from
\* munichanges afterwards
InitOverride ==
  /\ munichanges \in {df \in SeqsUpTo(OverrideEvents, MaxRows) : NoRepeatedRow(df)}
  /\ seeds = {114}
  /\ t5012 = seeds
  /\ loop_initlen = 0
  /\ loop_diff = Cardinality(seeds)
  /\ municlean = <<>>
  /\ until \in {Date_2020_01_01, Date_2024_01_01}
  /\ munid2020 = IdentityColumn(OverrideCodes)
  /\ passes = <<>>
  /\ LoadIdle /\ PopIdle /\ IncomeIdle
  /\ OtherIdle

NextOverride ==
  ClosureStep \/ ApplySpecialCaseEdits \/ ForwardToAnchor \/ BackwardToAnchor

SpecOverride == InitOverride /\ [][NextOverride]_vars

\* the event list as if 114 -> 128 had never been recorded
Without114To128(changes) ==
  SelectSeq(changes, LAMBDA e : ~(e.munid_from = 114 /\ e.munid_to = 128))

\* the first half of C13: the edited list, and with it the mapping of 114, is
\* one the list without the event gives
C13_MappingIgnoresSuppressedEdge ==
  /\ passes /= <<>> => municlean \in apply_special_case_edits(Without114To128(munichanges))
  /\ passes = <<"edit", "forward">> =>
       \E m \in apply_special_case_edits(Without114To128(munichanges)) :
         munid2020 = roll_forward_codes(IdentityColumn(OverrideCodes), m, until)

C13_MappingWitness ==
  /\ passes = <<"edit", "forward">>
  /\ \E i \in DOMAIN munichanges : munichanges[i] = Event(114, 128, Date_1986_01_01)
  /\ munid2020[114] = 3003

\* C13: with the edge 114 -> 128 suppressed, the mapping of 114 is as if the
\* event had never been recorded, and the closure group computed for 114
\* holds 128 only if 128 is connected to 114 without that edge
C13_SuppressedEdgeNeverExisted ==
  /\ C13_MappingIgnoresSuppressedEdge
  /\ (loop_diff <= 0 /\ 128 \in t5012) =>
       128 \in Component({114}, Without114To128(munichanges))

----------------------------------------------------------------------------
(* build_population_output: zero-total drop, mapping to the anchor, group sum *)

MaxPopRows == 3

\* the years, codes, ages and cell values of the population table
PopYears == {1986, 2024}
PopCodes == {1504, 1507, 1508}
PopAges == {"0", "105+"}
PopValues == {0, 1}

\* pop["age_raw"].replace({"105+": "105"}).astype(int)
age_cleanup(age_raw) == IF age_raw = "105+" THEN 105 ELSE 0

PopRows ==
  [year : PopYears, munid : PopCodes, age_raw : PopAges, population : PopValues]

\* the order of the cells in the downloaded files: year, region, age
RowBefore(a, b) ==
  \/ a.year < b.year
  \/ a.year = b.year /\ a.munid < b.munid
  \/ a.year = b.year /\ a.munid = b.munid
       /\ age_cleanup(a.age_raw) < age_cleanup(b.age_raw)

\* the tables of at most n rows, one row a cell, in the order of the files
RECURSIVE TablesUpTo(_)
TablesUpTo(n) ==
  IF n = 0 THEN {<<>>}
  ELSE LET shorter == TablesUpTo(n - 1)
       IN shorter \cup
          UNION { {Append(t, r) : r \in {q \in PopRows : n = 1 \/ RowBefore(t[n - 1], q)}} :
                    t \in {u \in shorter : Len(u) = n - 1} }

\* the population tables of at most MaxPopRows cells
PopTables == TablesUpTo(MaxPopRows)

\* the merger of 1504 and others into 1507 in 2020 and the later change of
\* 1507 to 1508
AggEvents ==
  { Event(1504, 1507, Date_2020_01_01),
    Event(1507, 1508, Date_2024_01_01) }

RECURSIVE SumOf(_, _)
SumOf(f, S) ==
  IF S = {} THEN 0
  ELSE LET i == CHOOSE j \in S : TRUE
       IN f[i] + SumOf(f, S \ {i})

row_population(rows, r) == r.population

\* pop.groupby(["year", "munid"])["population"].transform("sum")
grp_total(rows, r) ==
  SumOf([i \in DOMAIN rows |-> rows[i].population],
        {i \in DOMAIN rows : rows[i].year = r.year /\ rows[i].munid = r.munid})

RawCode(rows, col, i) == rows[i].munid

\* the code column the rows are grouped on: pop["munid2020"]
GroupCode(rows, col, i) == col[i]

\* pop with munid2020 and the cleaned age
Frame(rows, col) ==
  [i \in DOMAIN rows |->
     [year |-> rows[i].year, munid |-> GroupCode(rows, col, i),
      age |-> age_cleanup(rows[i].age_raw), population |-> rows[i].population]]

Key(r) == <<r.year, r.munid, r.age>>

KeyBefore(a, b) ==
  \/ a[1] < b[1]
  \/ a[1] = b[1] /\ a[2] < b[2]
  \/ a[1] = b[1] /\ a[2] = b[2] /\ a[3] < b[3]

\* the group keys in the order groupby puts them (sorted)
RECURSIVE SortKeys(_)
SortKeys(K) ==
  IF K = {} THEN <<>>
  ELSE LET m == CHOOSE k \in K : \A l \in K \ {k} : KeyBefore(k, l)
       IN <<m>> \o SortKeys(K \ {m})

FirstPopulation(frame, k) ==
  frame[SetMin({i \in DOMAIN frame : Key(frame[i]) = k})].population

\* ["population"].sum() of the group with key k
SumPopulation(frame, k) ==
  SumOf([i \in DOMAIN frame |-> frame[i].population],
        {i \in DOMAIN frame : Key(frame[i]) = k})

\* pop.groupby(["year", "munid2020", "age"], as_index=False)["population"]
\*    .sum().rename(columns={"munid2020": "munid"})
groupby_sum(rows, col) ==
  LET frame == Frame(rows, col)
      keys == SortKeys({Key(frame[i]) : i \in DOMAIN frame})
  IN [j \in DOMAIN keys |->
        [year |-> keys[j][1], munid |-> keys[j][2], age |-> keys[j][3],
         population |-> SumPopulation(frame, keys[j])]]

InitAggregate ==
  /\ munichanges \in {df \in SeqsUpTo(AggEvents, Cardinality(AggEvents)) : NoRepeatedRow(df)}
  /\ pop \in PopTables
  /\ kept = <<>>
  /\ out = <<>>
  /\ municlean = <<>>
  /\ until = Date_2020_01_01
  /\ munid2020 = <<>>
  /\ passes = <<>>
  /\ ClosureIdle /\ LoadIdle /\ IncomeIdle
  /\ OtherIdle

\* pop = pop[grp_total != 0]
DropZeroTotals ==
  /\ passes = <<>>
  /\ kept' = SelectSeq(pop, LAMBDA r : grp_total(pop, r) /= 0)
  /\ passes' = <<"drop">>
  /\ UNCHANGED <<munichanges, municlean, until, munid2020, pop, out>>
  /\ UNCHANGED <<closureVars, loadVars, incomeVars>>
  /\ UNCHANGED otherVars

\* municlean = apply_special_case_edits(changes); forward to 2020, then
\* backward after 2020
MapToAnchor ==
  /\ passes = <<"drop">>
  /\ municlean' \in apply_special_case_edits(munichanges)
  /\ munid2020' =
       roll_back_codes(
         roll_forward_codes([i \in DOMAIN kept |-> kept[i].munid], municlean', until),
         municlean', until)
  /\ passes' = <<"drop", "map">>
  /\ UNCHANGED <<munichanges, until, pop, kept, out>>
  /\ UNCHANGED <<closureVars, loadVars, incomeVars>>
  /\ UNCHANGED otherVars

\* out = pop.groupby([...])["population"].sum()
GroupSum ==
  /\ passes = <<"drop", "map">>
  /\ out' = groupby_sum(kept, munid2020)
  /\ passes' = <<"drop", "map", "group">>
  /\ UNCHANGED <<munichanges, municlean, until, munid2020, pop, kept>>
  /\ UNCHANGED <<closureVars, loadVars, incomeVars>>
  /\ UNCHANGED otherVars

NextAggregate == DropZeroTotals \/ MapToAnchor \/ GroupSum

SpecAggregate == InitAggregate /\ [][NextAggregate]_vars

----------------------------------------------------------------------------
(* Properties of the population build (SpecAggregate) *)

Grouped == passes = <<"drop", "map", "group">>

\* the population of the rows of a table that satisfy a test
Total(rows, Test(_)) ==
  SumOf([i \in DOMAIN rows |-> rows[i].population],
        {i \in DOMAIN rows : Test(rows[i])})

\* the retained rows of year y with a raw code in G, by row number
RetainedIn(y, G) == {i \in DOMAIN kept : kept[i].year = y /\ kept[i].munid \in G}

\* the anchor codes the retained rows of year y with a raw code in G map to
AnchorsOf(y, G) == {munid2020[i] : i \in RetainedIn(y, G)}

\* C14: for every year and every closure group, the population of the
\* retained rows of the group's raw codes equals the population of the output
\* rows of the anchor codes they are mapped to; the output total of a year
\* equals the retained input total of that year
C14_Conservation ==
  Grouped =>
    \A y \in PopYears :
      /\ \A c \in PopCodes :
           LET G == Component({c}, municlean)
           IN SumOf([i \in DOMAIN kept |-> kept[i].population], RetainedIn(y, G))
                = Total(out, LAMBDA r : r.year = y /\ r.munid \in AnchorsOf(y, G))
      /\ Total(kept, LAMBDA r : r.year = y) = Total(out, LAMBDA r : r.year = y)

\* 1504 and 1507 both have people in 1986 at age 0 and are merged into one
\* output row of 1507
C14_Witness ==
  /\ Grouped
  /\ \E i, j \in DOMAIN kept :
       /\ kept[i] = [year |-> 1986, munid |-> 1504, age_raw |-> "0", population |-> 1]
       /\ kept[j] = [year |-> 1986, munid |-> 1507, age_raw |-> "0", population |-> 1]
  /\ \E k \in DOMAIN out :
       out[k] = [year |-> 1986, munid |-> 1507, age |-> 0, population |-> 2]

\* the key a retained row has after mapping and age cleanup
MappedKey(i) == <<kept[i].year, munid2020[i], age_cleanup(kept[i].age_raw)>>

\* C15: the output has exactly one row per (year, anchor munid, age) key that
\* occurs after mapping, and its population is the sum over the retained rows
\* with that key
C15_OneRowPerKeyWithSum ==
  Grouped =>
    /\ {Key(out[j]) : j \in DOMAIN out} = {MappedKey(i) : i \in DOMAIN kept}
    /\ \A j, l \in DOMAIN out : j /= l => Key(out[j]) /= Key(out[l])
    /\ \A j \in DOMAIN out :
         out[j].population =
           SumOf([i \in DOMAIN kept |-> kept[i].population],
                 {i \in DOMAIN kept : MappedKey(i) = Key(out[j])})

\* three retained rows, two of them (1504 and 1508) mapped to 1507 at age 105,
\* give two output rows
C15_Witness ==
  /\ Grouped
  /\ Len(kept) = 3
  /\ Len(out) = 2
  /\ \E i, j \in DOMAIN kept :
       /\ kept[i].munid = 1504 /\ kept[j].munid = 1508
       /\ munid2020[i] = 1507 /\ munid2020[j] = 1507
       /\ MappedKey(i) = MappedKey(j)
       /\ kept[i].age_raw = "105+"

\* the total of the raw (year, munid) group of a row, over all ages
RawTotal(r) == Total(pop, LAMBDA q : q.year = r.year /\ q.munid = r.munid)

\* C17: the retained rows are exactly the rows of the raw (year, munid)
\* groups with a non-zero total, zero-valued cells included, whatever the
\* codes map to; only they reach the output
C17_ZeroTotalGroupsDropped ==
  /\ passes /= <<>> =>
       /\ \A i \in DOMAIN pop :
            (RawTotal(pop[i]) /= 0) <=> (\E k \in DOMAIN kept : kept[k] = pop[i])
       /\ \A k \in DOMAIN kept : \E i \in DOMAIN pop : pop[i] = kept[k]
       /\ \A k, l \in DOMAIN kept : k /= l => kept[k] /= kept[l]
  /\ Grouped =>
       {Key(out[j]) : j \in DOMAIN out} = {MappedKey(i) : i \in DOMAIN kept}

\* 1504 has a zero total in 1986 and is merged into 1507, which has people at
\* age 0 and a zero cell at age 105: the output has the zero cell of 1507 and
\* nothing of 1504
C17_Witness ==
  /\ Grouped
  /\ \E i \in DOMAIN pop :
       pop[i] = [year |-> 1986, munid |-> 1504, age_raw |-> "0", population |-> 0]
  /\ \E i \in DOMAIN municlean : municlean[i] = Event(1504, 1507, Date_2020_01_01)
  /\ \E k \in DOMAIN kept :
       kept[k] = [year |-> 1986, munid |-> 1507, age_raw |-> "105+", population |-> 0]
  /\ \E j \in DOMAIN out :
       out[j] = [year |-> 1986, munid |-> 1507, age |-> 105, population |-> 0]
  /\ Len(out) = 2

----------------------------------------------------------------------------
(* build_income_output: placeholders, roll forward, pivot, weighted income *)

IncCodes == {1504, 1507}
IncMeasures == {"AntallHushold", "InntSkatt"}

\* a cell holds the text of a count or amount, or the placeholder "."
IncValues == {".", "1", "2"}

\* df["value"].astype(int)
astype_int(value) == IF value = "1" THEN 1 ELSE 2

\* the cells of household type 0: one for every year, region and measure
IncCells == [year : PopYears, munid : IncCodes, measure : IncMeasures]

\* rows of another household type
OtherTypeRows ==
  { [year |-> 2024, munid |-> 1507, measure |-> m, HusholdType |-> 1, value |-> "2"] :
      m \in IncMeasures }

RECURSIVE SetToSeq(_)
SetToSeq(S) ==
  IF S = {} THEN <<>>
  ELSE LET x == CHOOSE y \in S : TRUE
       IN <<x>> \o SetToSeq(S \ {x})

\* the tables pd.read_csv(StringIO(text)) can give
IncTables ==
  { SetToSeq({[year |-> c.year, munid |-> c.munid, measure |-> c.measure,
               HusholdType |-> 0, value |-> v[c]] : c \in IncCells} \cup T) :
      v \in [IncCells -> IncValues], T \in SUBSET OtherTypeRows }

IncChanges == {<<>>, <<Event(1504, 1507, Date_2020_01_01)>>}

\* the sum of the values of a set of rows of df; no row gives NaN (the empty
\* set), otherwise the set holding the sum
MeasureSum(df, rows) ==
  IF rows = {} THEN {}
  ELSE {SumOf([i \in DOMAIN df |-> df[i].value], rows)}

\* df.pivot_table(index=["year", "munid", "munid2020"], columns="measure",
\*                values="value", aggfunc="sum"), with totincome
pivot_table(df, col) ==
  LET idx == {<<df[i].year, df[i].munid, col[i]>> : i \in DOMAIN df}
      cell(k, m) == MeasureSum(df, {i \in DOMAIN df :
                       <<df[i].year, df[i].munid, col[i]>> = k /\ df[i].measure = m})
  IN { [year |-> k[1], munid |-> k[2], munid2020 |-> k[3],
        nhouseholds |-> cell(k, "AntallHushold"),
        income_posttax |-> cell(k, "InntSkatt"),
        totincome |-> {a * b : a \in cell(k, "AntallHushold"),
                               b \in cell(k, "InntSkatt")}] : k \in idx }

\* the sum of a column of optional numbers over a set of rows: NaN is skipped
SumSkipNaN(rows, column) ==
  LET R == SetToSeq(rows)
  IN SumOf([i \in DOMAIN R |-> SumOf([x \in R[i][column] |-> x], R[i][column])],
           DOMAIN R)

\* df_w.groupby(["year", "munid2020"])[["nhouseholds", "totincome"]].sum()
\*   .assign(income = totincome / nhouseholds); the quotient is kept as the
\* pair (income_num, income_den), 0 / 0 being NaN
groupby_income(df_w) ==
  LET groups == {<<r.year, r.munid2020>> : r \in df_w}
      members(g) == {r \in df_w : r.year = g[1] /\ r.munid2020 = g[2]}
  IN { [year |-> g[1], munid |-> g[2],
        nhouseholds |-> SumSkipNaN(members(g), "nhouseholds"),
        income_num |-> SumSkipNaN(members(g), "totincome"),
        income_den |-> SumSkipNaN(members(g), "nhouseholds")] : g \in groups }

InitIncome ==
  /\ inc \in IncTables
  /\ df_final = {}
  /\ munichanges \in IncChanges
  /\ municlean = <<>>
  /\ until = Date_2020_01_01
  /\ munid2020 = <<>>
  /\ passes = <<>>
  /\ ClosureIdle /\ LoadIdle /\ PopIdle
  /\ OtherIdle

\* df = df[~df["value"].isin([".", ":"])]; df["value"] = df["value"].astype(int)
DropPlaceholders ==
  /\ passes = <<>>
  /\ LET df == SelectSeq(inc, LAMBDA r : r.value /= ".")
     IN inc' = [i \in DOMAIN df |-> [df[i] EXCEPT !.value = astype_int(df[i].value)]]
  /\ passes' = <<"placeholders">>
  /\ UNCHANGED <<munichanges, municlean, until, munid2020, df_final>>
  /\ UNCHANGED <<closureVars, loadVars, popVars>>
  /\ UNCHANGED otherVars

\* df["munid2020"] = roll_forward_codes(df["munid"], municlean, until="2020-01-01")
IncomeForward ==
  /\ passes = <<"placeholders">>
  /\ municlean' \in apply_special_case_edits(munichanges)
  /\ munid2020' = roll_forward_codes([i \in DOMAIN inc |-> inc[i].munid], municlean', until)
  /\ passes' = <<"placeholders", "forward">>
  /\ UNCHANGED <<munichanges, until, inc, df_final>>
  /\ UNCHANGED <<closureVars, loadVars, popVars>>
  /\ UNCHANGED otherVars

\* the rows of household type 0, by row number
TypeZero == {i \in DOMAIN inc : inc[i].HusholdType = 0}

\* keep HusholdType == 0, pivot to wide, group on year and munid2020; a
\* measure with no row left is no column of the pivot and df_w[...] raises
PivotAndGroup ==
  /\ passes = <<"placeholders", "forward">>
  /\ LET rows == SetToSeq(TypeZero)
         df == [k \in DOMAIN rows |-> inc[rows[k]]]
         col == [k \in DOMAIN rows |-> munid2020[rows[k]]]
     IN IF \A m \in IncMeasures : \E k \in DOMAIN df : df[k].measure = m
        THEN /\ df_final' = groupby_income(pivot_table(df, col))
             /\ raised' = "none"
        ELSE /\ df_final' = df_final
             /\ raised' = "KeyError"
  /\ passes' = <<"placeholders", "forward", "group">>
  /\ UNCHANGED <<munichanges, municlean, until, munid2020, inc>>
  /\ UNCHANGED <<closureVars, csv, warnings, popVars>>
  /\ UNCHANGED otherVars

NextIncome == DropPlaceholders \/ IncomeForward \/ PivotAndGroup

SpecIncome == InitIncome /\ [][NextIncome]_vars

----------------------------------------------------------------------------
(* Properties of the income build (SpecIncome) *)

IncomeGrouped == passes = <<"placeholders", "forward", "group">> /\ raised = "none"

\* the raw municipalities of year y mapped to anchor a
MembersOf(y, a) ==
  {inc[i].munid : i \in {j \in TypeZero : inc[j].year = y /\ munid2020[j] = a}}

\* the figure of measure m of raw municipality c in year y: the set holding
\* it, or the empty set when the table has a placeholder there
Figure(y, c, m) ==
  {inc[i].value : i \in {j \in TypeZero :
                           inc[j].year = y /\ inc[j].munid = c /\ inc[j].measure = m}}

\* the sum over a set of codes of a number for each code
SumCodes(C, F(_)) ==
  LET R == SetToSeq(C)
  IN SumOf([i \in DOMAIN R |-> F(R[i])], DOMAIN R)

OnlyOf(S) == CHOOSE x \in S : TRUE

\* C16: for every (year, anchor munid) row of the income output, nhouseholds
\* is the sum of the members' household counts, and income is the
\* household-weighted mean of the members' income_posttax: the sum of
\* nhouseholds x income_posttax divided by the sum of nhouseholds, over the
\* members that have an income
C16_HouseholdWeightedMean ==
  IncomeGrouped =>
    \A g \in df_final :
      LET M == MembersOf(g.year, g.munid)
          counted == {c \in M : Figure(g.year, c, "AntallHushold") /= {}}
          D == {c \in counted : Figure(g.year, c, "InntSkatt") /= {}}
          nh(c) == OnlyOf(Figure(g.year, c, "AntallHushold"))
          product(c) == nh(c) * OnlyOf(Figure(g.year, c, "InntSkatt"))
      IN /\ g.nhouseholds = SumCodes(counted, nh)
         /\ D /= {} =>
              /\ g.income_den /= 0
              /\ g.income_num * SumCodes(D, nh) = SumCodes(D, product) * g.income_den

\* the merge of 1504 (1 household, income 1) into 1507 (2 households, income
\* 2) gives 3 households with income 5 / 3
C16_MergedGroup ==
  /\ IncomeGrouped
  /\ \E g \in df_final :
       /\ g.munid = 1507
       /\ MembersOf(g.year, g.munid) = {1504, 1507}
       /\ g.nhouseholds = 3 /\ g.income_num = 5 /\ g.income_den = 3

----------------------------------------------------------------------------
(* fetch_klass_changes_since, then the edits and the forward pass *)

MaxCsvRows == 2

LoadCodes == {1504, 1507}

\* the texts of the changeOccurred column; the last one is no date
DateTexts == {"2020-01-01", "2024-01-01", "not a date"}

Parsable(text) == text \in {"2020-01-01", "2024-01-01"}

\* pd.to_datetime of a text that is a date
to_datetime(text) ==
  IF text = "2020-01-01" THEN Date_2020_01_01 ELSE Date_2024_01_01

\* the rows of changes.csv; KLASS is not asked to keep oldCode and newCode
\* apart
CsvRows == [oldCode : LoadCodes, newCode : LoadCodes, changeOccurred : DateTexts]

InitLoad ==
  /\ csv \in SeqsUpTo(CsvRows, MaxCsvRows)
  /\ raised = "none"
  /\ warnings = {}
  /\ munichanges = <<>>
  /\ municlean = <<>>
  /\ until = Date_2020_01_01
  /\ munid2020 = IdentityColumn(LoadCodes)
  /\ passes = <<>>
  /\ ClosureIdle /\ PopIdle /\ IncomeIdle
  /\ OtherIdle

\* df = pd.read_csv(...).rename(...); df["date"] = pd.to_datetime(df["date"]):
\* a text that is no date makes pd.to_datetime raise ValueError; nothing else
\* is looked at
FetchKlassChanges ==
  /\ passes = <<>>
  /\ IF \A i \in DOMAIN csv : Parsable(csv[i].changeOccurred)
     THEN /\ munichanges' =
               [i \in DOMAIN csv |->
                  Event(csv[i].oldCode, csv[i].newCode, to_datetime(csv[i].changeOccurred))]
          /\ raised' = "none"
     ELSE /\ munichanges' = munichanges
          /\ raised' = "ValueError"
  /\ passes' = <<"fetch">>
  /\ UNCHANGED <<municlean, until, munid2020, csv, warnings>>
  /\ UNCHANGED <<closureVars, popVars, incomeVars>>
  /\ UNCHANGED otherVars

\* municlean = apply_special_case_edits(changes)
EditFetchedChanges ==
  /\ passes = <<"fetch">>
  /\ raised = "none"
  /\ municlean' \in apply_special_case_edits(munichanges)
  /\ passes' = <<"fetch", "edit">>
  /\ UNCHANGED <<munichanges, until, munid2020>>
  /\ UNCHANGED <<closureVars, loadVars, popVars, incomeVars>>
  /\ UNCHANGED otherVars

\* pop["munid2020"] = roll_forward_codes(pop["munid"], municlean, until=...)
ForwardFetchedChanges ==
  /\ passes = <<"fetch", "edit">>
  /\ munid2020' = roll_forward_codes(munid2020, municlean, until)
  /\ passes' = <<"fetch", "edit", "forward">>
  /\ UNCHANGED <<munichanges, municlean, until>>
  /\ UNCHANGED <<closureVars, loadVars, popVars, incomeVars>>
  /\ UNCHANGED otherVars

NextLoad == FetchKlassChanges \/ EditFetchedChanges \/ ForwardFetchedChanges

SpecLoad == InitLoad /\ [][NextLoad]_vars

----------------------------------------------------------------------------
(* Error handling of the replay, the load and the edits *)

\* C18: once a pass has run over an event list with a cycle, the replay has
\* raised CyclicChangeError and the codes are as they were before the pass
C18_CycleRaises ==
  (passes /= <<>> /\ ~Acyclic(municlean)) =>
    /\ raised = "CyclicChangeError"
    /\ munid2020 = IdentityColumn(Codes)

\* a downloaded row with oldCode = newCode or a changeOccurred that is no date
Malformed(row) == row.oldCode = row.newCode \/ ~Parsable(row.changeOccurred)

\* C19: when a downloaded row is malformed the load has raised
\* MalformedEventError and no edit or replay has run; no event with
\* from_code = to_code is in the list the replay uses
C19_MalformedEventAborts ==
  /\ (passes /= <<>> /\ \E i \in DOMAIN csv : Malformed(csv[i])) =>
       /\ raised = "MalformedEventError"
       /\ passes = <<"fetch">>
  /\ \A i \in DOMAIN municlean : municlean[i].munid_from /= municlean[i].munid_to

\* a text that is no date does end the run before the edits, with ValueError
C19_BadDateEndsRun ==
  (passes /= <<>> /\ \E i \in DOMAIN csv : ~Parsable(csv[i].changeOccurred)) =>
    raised = "ValueError" /\ passes = <<"fetch">> /\ municlean = <<>>

\* a row 1504 -> 1504 has been replayed
C19_SelfLoopReplayed ==
  /\ passes = <<"fetch", "edit", "forward">>
  /\ \E i \in DOMAIN municlean :
       municlean[i] = Event(1504, 1504, Date_2020_01_01)
  /\ raised = "none"

\* the (from_code, to_code) edges the edits remove
SuppressedEdges ==
  { <<114, 128>>, <<412, 403>>, <<720, 704>>, <<1850, 1806>>,
    <<5012, 5056>>, <<5012, 5055>>, <<1534, 1507>>, <<1507, 1580>> }

HasEdge(changes, edge) ==
  \E i \in DOMAIN changes :
    changes[i].munid_from = edge[1] /\ changes[i].munid_to = edge[2]

\* C20: once the edits have run on a list that lacks an edge they remove, a
\* warning has been logged or an error raised
C20_AbsentEdgeReported ==
  (passes /= <<>> /\ \E edge \in SuppressedEdges : ~HasEdge(munichanges, edge)) =>
    (warnings /= {} \/ raised /= "none")

\* the other half of C20: the edits go on and leave every other event in
\* the list
C20_OtherEventsKept ==
  passes /= <<>> =>
    \A i \in DOMAIN munichanges :
      (\A edge \in SuppressedEdges : ~HasEdge(<<munichanges[i]>>, edge)) =>
        \E k \in DOMAIN municlean : municlean[k] = munichanges[i]

----------------------------------------------------------------------------
(* The edits on a table that already records the injected pair *)

\* the Haram events and the pair 1534 -> 1580 as the registry could record it
InjectionEvents ==
  { Event(1534, 1507, Date_2020_01_01),
    Event(1507, 1580, Date_2024_01_01),
    Event(1534, 1580, Date_2024_01_01),
    Event(1534, 1580, Date_2020_01_01) }

InitInjection ==
  /\ munichanges \in {df \in SeqsUpTo(InjectionEvents, MaxRows) : NoRepeatedRow(df)}
  /\ municlean = <<>>
  /\ until \in {Date_2020_01_01, Date_2024_01_01}
  /\ munid2020 = IdentityColumn(RealCodes)
  /\ passes = <<>>
  /\ ClosureIdle /\ LoadIdle /\ PopIdle /\ IncomeIdle
  /\ OtherIdle

SpecInjection == InitInjection /\ [][Next]_vars

\* the rows of a table for the pair (from_code, to_code), by row number
RowsOfPair(changes, f, t) ==
  {i \in DOMAIN changes : changes[i].munid_from = f /\ changes[i].munid_to = t}

\* C21: once the edits have run, the list holds at most one event for the
\* injected pair 1534 -> 1580
C21_InjectedPairOnce ==
  passes /= <<>> => Cardinality(RowsOfPair(municlean, 1534, 1580)) <= 1

\* how often a row occurs in a table
Count(changes, e) == Cardinality({i \in DOMAIN changes : changes[i] = e})

Suppressed(e) == <<e.munid_from, e.munid_to>> \in SuppressedEdges

\* C22: the edits leave the input table as it was and return its events
\* that are not suppressed, each as often as it was there, plus the edge
\* 1534 -> 1580 of 2024-01-01 once more, and nothing else; the passes leave
\* the event tables as they were
C22_EditsFrame ==
  /\ [][munichanges' = munichanges]_vars
  /\ [][passes /= <<>> => municlean' = municlean]_vars
  /\ [](passes /= <<>> =>
          \A e \in {munichanges[i] : i \in DOMAIN munichanges}
                  \cup {municlean[i] : i \in DOMAIN municlean} :
            Count(municlean, e) =
              (IF Suppressed(e) THEN 0 ELSE Count(munichanges, e))
                + (IF e = HaramEdge THEN 1 ELSE 0))

\* the edits have dropped 5012 -> 5056 and kept 5012 -> 5059 of a table that
\* held both, and a pass has run
C22_Witness ==
  /\ passes = <<"edit", "forward">>
  /\ Count(munichanges, Event(5012, 5056, Date_2020_01_01)) = 1
  /\ Count(munichanges, Event(5012, 5059, Date_2020_01_01)) = 1
  /\ Count(municlean, Event(5012, 5059, Date_2020_01_01)) = 1
  /\ Count(municlean, HaramEdge) = 1
  /\ Len(municlean) = Len(munichanges)

\* the anchor codes build_income_output gives: a forward pass to 2020-01-01
\* and no backward pass
IncomeMapping == roll_forward_codes(IdentityColumn(RealCodes), municlean, Date_2020_01_01)

\* C24: the passes run forward then backward, and once the population build
\* has mapped its codes to 2020-01-01 every raw code has the anchor code the
\* income build gives it
C24_SameMappingBothOutputs ==
  /\ passes \in {<<>>, <<"edit">>, <<"edit", "forward">>, <<"edit", "forward", "back">>}
  /\ (passes = <<"edit", "forward", "back">> /\ until = Date_2020_01_01) =>
       munid2020 = IncomeMapping

\* the first half of C24 on its own
C24_ForwardThenBackward ==
  passes \in {<<>>, <<"edit">>, <<"edit", "forward">>, <<"edit", "forward", "back">>}

----------------------------------------------------------------------------
(* build_population_output with its coverage check *)

\* what session_post_text does for the national totals: it returns the text
\* or, when no attempt got an ok response, raises RuntimeError
PostOutcomes == {"text", "RuntimeError"}

\* the sanity check against the national totals, then "return out": the
\* totals are requested after out is written; an exception of the request
\* leaves build_population_output without returning
CoverageCheck ==
  /\ passes = <<"drop", "map", "group">>
  /\ \E outcome \in PostOutcomes :
       raised' = IF outcome = "text" THEN "none" ELSE "RuntimeError"
  /\ passes' = <<"drop", "map", "group", "check">>
  /\ UNCHANGED <<munichanges, municlean, until, munid2020>>
  /\ UNCHANGED <<closureVars, csv, warnings, popVars, incomeVars>>
  /\ UNCHANGED otherVars

NextCoverage == DropZeroTotals \/ MapToAnchor \/ GroupSum \/ CoverageCheck

SpecCoverage == InitAggregate /\ [][NextCoverage]_vars

\* C23: once the coverage check has run, build_population_output has
\* returned (no exception ended it), with the output it had computed
C23_CoverageCheckNonFatal ==
  passes = <<"drop", "map", "group", "check">> =>
    /\ raised = "none"
    /\ out = groupby_sum(kept, munid2020)

----------------------------------------------------------------------------
(* The walkback loop of get_ssb_data_api (municode) *)

\* muni2024.code.values: the codes in force at the end, those no event
\* leads away from
muni2024(changes) == Codes \ {changes[i].munid_from : i \in DOMAIN changes}

\* for _, change in changes.iterrows(): municode[change.munid_to] = change.munid_from
RECURSIVE AssignRows(_, _)
AssignRows(code, rows) ==
  IF rows = <<>> THEN code
  ELSE LET change == Head(rows)
           keys == DOMAIN code \cup {change.munid_to}
       IN AssignRows([k \in keys |-> IF k = change.munid_to THEN change.munid_from
                                     ELSE code[k]],
                     Tail(rows))

\* municode = {x: x for x in muni2024.code.values}; changedates holds every
\* date of munichanges
InitWalkback ==
  /\ munichanges \in {df \in SeqsUpTo(GenericEvents, MaxEvents) : Acyclic(df)}
  /\ municode = IdentityColumn(muni2024(munichanges))
  /\ changedates = {munichanges[i].date : i \in DOMAIN munichanges}
  /\ municlean = <<>>
  /\ until = ReplayAnchor
  /\ munid2020 = <<>>
  /\ passes = <<>>
  /\ ClosureIdle /\ LoadIdle /\ PopIdle /\ IncomeIdle
  /\ RetryIdle /\ CheckpointIdle /\ DownloadIdle

\* one turn of "for date in changedates" (sorted descending)
WalkbackDate ==
  /\ changedates /= {}
  /\ LET date == SetMax(changedates)
     IN /\ municode' = AssignRows(municode, RowsAt(munichanges, date))
        /\ changedates' = changedates \ {date}
  /\ passes' = <<"walkback">>
  /\ UNCHANGED <<munichanges, municlean, until, munid2020>>
  /\ UNCHANGED <<closureVars, loadVars, popVars, incomeVars>>
  /\ UNCHANGED <<retryVars, checkpointVars, downloadVars>>

NextWalkback == WalkbackDate

SpecWalkback == InitWalkback /\ [][NextWalkback]_vars

\* no code is the to_code of two events, so every code has one predecessor
\* at most
OnePredecessor(changes) ==
  \A i, j \in DOMAIN changes : i /= j => changes[i].munid_to /= changes[j].munid_to

\* C25: when the walkback loop is over, municode gives every code in force
\* at the end the code it had on the anchor date: the changes after the
\* anchor reversed and composed, no other change reversed
C25_WalkbackGivesAnchorCodes ==
  (changedates = {} /\ OnePredecessor(munichanges)) =>
    \A c \in muni2024(munichanges) :
      municode[c] =
        roll_back_codes(IdentityColumn(muni2024(munichanges)), munichanges, until)[c]

\* restricted to tables whose events are all after the anchor and do not
\* chain, the walkback does give the anchor codes
C25_SingleHopsAfterAnchor ==
  (changedates = {} /\ OnePredecessor(munichanges)
     /\ (\A i \in DOMAIN munichanges : munichanges[i].date > until)
     /\ (\A i, j \in DOMAIN munichanges :
           munichanges[i].munid_to /= munichanges[j].munid_from)) =>
    \A c \in muni2024(munichanges) :
      municode[c] =
        roll_back_codes(IdentityColumn(muni2024(munichanges)), munichanges, until)[c]

----------------------------------------------------------------------------
(* The retrying request helpers *)

MAX_RETRIES == 6

\* session_get_json and session_post_text look at 429 with Retry-After;
\* post_with_retries and sendrequest do not
Helpers == {"session_post_text", "session_get_json", "post_with_retries", "sendrequest"}

Handles429(helper) == helper \in {"session_post_text", "session_get_json"}

\* what one attempt can meet: an ok response, a response that is not ok, a
\* requests.RequestException, or a 429 whose Retry-After header is a number
\* of seconds or an HTTP date
Responses == {"ok", "not_ok", "RequestException", "429_seconds", "429_date"}

InitRetry ==
  /\ call \in {[helper |-> h, attempt |-> 0, responses |-> <<>>, status |-> "running"] :
                 h \in Helpers}
  /\ munichanges = <<>>
  /\ municlean = <<>>
  /\ until = Date_2020_01_01
  /\ munid2020 = <<>>
  /\ passes = <<>>
  /\ ClosureIdle /\ LoadIdle /\ PopIdle /\ IncomeIdle /\ WalkbackIdle /\ CheckpointIdle /\ DownloadIdle

\* the status of the call after the response of one attempt
AfterResponse(helper, resp) ==
  IF resp = "ok" THEN "returned"
  ELSE IF Handles429(helper) /\ resp = "429_date" THEN "ValueError"
  ELSE "running"

\* one turn of "for attempt in range(MAX_RETRIES)": the request, then return,
\* continue, or back off and go on; float(Retry-After) raises ValueError for
\* a header that is no number
Attempt ==
  /\ call.status = "running"
  /\ call.attempt < MAX_RETRIES
  /\ \E resp \in Responses :
       call' = [call EXCEPT !.responses = Append(@, resp),
                            !.status = AfterResponse(call.helper, resp),
                            !.attempt = IF AfterResponse(call.helper, resp) = "running"
                                        THEN @ + 1 ELSE @]
  /\ UNCHANGED <<munichanges, municlean, until, munid2020, passes>>
  /\ UNCHANGED <<closureVars, loadVars, popVars, incomeVars, walkbackVars, checkpointVars, downloadVars>>

\* the loop is over: raise RuntimeError(...)
RaiseAfterRetries ==
  /\ call.status = "running"
  /\ call.attempt = MAX_RETRIES
  /\ call' = [call EXCEPT !.status = "RuntimeError"]
  /\ UNCHANGED <<munichanges, municlean, until, munid2020, passes>>
  /\ UNCHANGED <<closureVars, loadVars, popVars, incomeVars, walkbackVars, checkpointVars, downloadVars>>

NextRetry == Attempt \/ RaiseAfterRetries

SpecRetry == InitRetry /\ [][NextRetry]_vars

\* C26: a call sends at most MAX_RETRIES requests; it returns only on an ok
\* response, the first one; a call that does not return ends with
\* RuntimeError; the loop variable never passes MAX_RETRIES
C26_BoundedRetries ==
  /\ Len(call.responses) <= MAX_RETRIES
  /\ call.attempt <= MAX_RETRIES
  /\ call.status = "returned" =>
       /\ call.responses[Len(call.responses)] = "ok"
       /\ \A k \in 1..(Len(call.responses) - 1) : call.responses[k] /= "ok"
  /\ call.status \in {"running", "returned", "RuntimeError"}

\* the same without the last conjunct: what holds of every helper
C26_BoundedAndOkOnly ==
  /\ Len(call.responses) <= MAX_RETRIES
  /\ call.attempt <= MAX_RETRIES
  /\ call.status = "returned" =>
       /\ call.responses[Len(call.responses)] = "ok"
       /\ \A k \in 1..(Len(call.responses) - 1) : call.responses[k] /= "ok"
  /\ (call.status = "RuntimeError" => Len(call.responses) = MAX_RETRIES)
  /\ (call.status = "ValueError" => Handles429(call.helper))

\* every response was a 429 with Retry-After in seconds, and the call ended
\* with RuntimeError after MAX_RETRIES requests
C26_All429 ==
  /\ call.status = "RuntimeError"
  /\ Handles429(call.helper)
  /\ \A k \in DOMAIN call.responses : call.responses[k] = "429_seconds"

----------------------------------------------------------------------------
(* Checkpoint files over several runs of a download script *)

MaxYears == 3
MaxRuns == 2

FirstYear == 1986

\* the keys of a run, in loop order: range(start_year, end_year + 1), or the
\* years of one air-quality station
CheckpointYears == FirstYear..(FirstYear + MaxYears - 1)

Scripts == {"population", "airquality"}

\* what the fetch of one key can meet: rows, a response without any row to
\* keep, or RuntimeError out of the retry helper
FetchOutcomes == {"rows", "no_data", "RuntimeError"}

NoFetch == [key |-> 0, outcome |-> "none"]

InitCheckpoint ==
  /\ checkpoints \in {[script |-> s, files |-> <<>>, run |-> 1, y |-> FirstYear,
                       last |-> NoFetch, ended |-> "no"] : s \in Scripts}
  /\ call = <<>>
  /\ munichanges = <<>>
  /\ municlean = <<>>
  /\ until = Date_2020_01_01
  /\ munid2020 = <<>>
  /\ passes = <<>>
  /\ ClosureIdle /\ LoadIdle /\ PopIdle /\ IncomeIdle /\ WalkbackIdle /\ DownloadIdle

\* the file the script writes for a fetch: fetch_population_year writes the
\* frame it has, even without rows; the air-quality loop writes only when
\* it has frames
FileWritten(script, outcome) ==
  IF outcome = "rows" THEN <<"rows">>
  ELSE IF outcome = "no_data" /\ script = "population" THEN <<"empty">>
  ELSE <<>>

WriteFile(files, key, written) ==
  IF written = <<>> THEN files
  ELSE [k \in DOMAIN files \cup {key} |-> IF k = key THEN written[1] ELSE files[k]]

\* one turn of the loop over the keys with an existing file: skip
SkipExisting ==
  /\ checkpoints.ended = "no"
  /\ checkpoints.y \in CheckpointYears
  /\ checkpoints.y \in DOMAIN checkpoints.files
  /\ checkpoints' = [checkpoints EXCEPT !.y = @ + 1, !.last = NoFetch]
  /\ UNCHANGED <<munichanges, municlean, until, munid2020, passes>>
  /\ UNCHANGED <<closureVars, loadVars, popVars, incomeVars, walkbackVars, retryVars, downloadVars>>

\* one turn of the loop over the keys without a file: request, then write
\* the file, go on without one, or leave the run with the exception
FetchKey ==
  /\ checkpoints.ended = "no"
  /\ checkpoints.y \in CheckpointYears
  /\ checkpoints.y \notin DOMAIN checkpoints.files
  /\ \E outcome \in FetchOutcomes :
       checkpoints' =
         [checkpoints EXCEPT
            !.files = WriteFile(@, checkpoints.y, FileWritten(checkpoints.script, outcome)),
            !.last = [key |-> checkpoints.y, outcome |-> outcome],
            !.y = IF outcome = "RuntimeError" THEN @ ELSE @ + 1,
            !.ended = IF outcome = "RuntimeError" THEN "RuntimeError" ELSE "no"]
  /\ UNCHANGED <<munichanges, municlean, until, munid2020, passes>>
  /\ UNCHANGED <<closureVars, loadVars, popVars, incomeVars, walkbackVars, retryVars, downloadVars>>

\* the script is started again, after the loop ended or an exception
NextRun ==
  /\ checkpoints.ended /= "no" \/ checkpoints.y \notin CheckpointYears
  /\ checkpoints.run < MaxRuns
  /\ checkpoints' = [checkpoints EXCEPT !.run = @ + 1, !.y = FirstYear,
                                        !.last = NoFetch, !.ended = "no"]
  /\ UNCHANGED <<munichanges, municlean, until, munid2020, passes>>
  /\ UNCHANGED <<closureVars, loadVars, popVars, incomeVars, walkbackVars, retryVars, downloadVars>>

NextCheckpoint == SkipExisting \/ FetchKey \/ NextRun

SpecCheckpoint == InitCheckpoint /\ [][NextCheckpoint]_vars

\* C27 (existing files): a request is sent only for a key without a file,
\* and a file, once there, stays as it is
C27_ExistingFilesSkipped ==
  [][/\ \A k \in DOMAIN checkpoints.files :
          k \in DOMAIN checkpoints'.files /\ checkpoints'.files[k] = checkpoints.files[k]
     /\ checkpoints'.last.outcome /= "none" =>
          checkpoints'.last.key \notin DOMAIN checkpoints.files]_vars

\* C27 (failed or empty fetches): a key whose fetch just failed or returned
\* no data has no file
C27_NoFileWithoutData ==
  checkpoints.last.outcome \in {"no_data", "RuntimeError"} =>
    checkpoints.last.key \notin DOMAIN checkpoints.files

\* C27: both parts
C27_ResumeSafety == C27_ExistingFilesSkipped /\ [] C27_NoFileWithoutData

\* a second run skips the key written in the first
C27_SkippedInSecondRun ==
  /\ checkpoints.run = 2
  /\ checkpoints.y > FirstYear
  /\ checkpoints.last = NoFetch
  /\ FirstYear \in DOMAIN checkpoints.files

----------------------------------------------------------------------------
(* iter_100h_windows of npra_client; timestamps are counted in hours *)

MaxStart == 2
MaxEnd == 205

hour100 == 100

\* the loop condition of iter_100h_windows, taken one window too far
more_windows_inclusive(fromtime, endtime) == fromtime <= endtime

\* while fromtime < end
more_windows(fromtime, endtime) == fromtime < endtime

\* everything outside the generator
NotWindows ==
  <<munichanges, municlean, until, munid2020, passes, closureVars, loadVars,
    popVars, incomeVars, walkbackVars, retryVars, checkpointVars,
    stationrun, country>>

InitWindows ==
  /\ windows \in {[start |-> s, end |-> e, fromtime |-> s, yielded |-> <<>>,
                   pc |-> "while"] : s \in 0..MaxStart, e \in 0..MaxEnd}
  /\ stationrun = <<>>
  /\ country = <<>>
  /\ checkpoints = <<>>
  /\ call = <<>>
  /\ munichanges = <<>>
  /\ municlean = <<>>
  /\ until = Date_2020_01_01
  /\ munid2020 = <<>>
  /\ passes = <<>>
  /\ ClosureIdle /\ LoadIdle /\ PopIdle /\ IncomeIdle /\ WalkbackIdle

\* one turn of the loop: totime = fromtime + hour100, yield, fromtime = totime
YieldWindow ==
  /\ windows.pc = "while"
  /\ more_windows(windows.fromtime, windows.end)
  /\ LET totime == windows.fromtime + hour100
     IN windows' = [windows EXCEPT !.yielded = Append(@, <<windows.fromtime, totime>>),
                                   !.fromtime = totime]
  /\ UNCHANGED NotWindows

\* the loop condition fails: the generator is exhausted
StopIteration ==
  /\ windows.pc = "while"
  /\ ~ more_windows(windows.fromtime, windows.end)
  /\ windows' = [windows EXCEPT !.pc = "exhausted"]
  /\ UNCHANGED NotWindows

NextWindows == YieldWindow \/ StopIteration

SpecWindows == InitWindows /\ [][NextWindows]_vars

SpecWindowsFair == SpecWindows /\ WF_vars(NextWindows)

\* the windows that hold the hour h
WindowsWith(h) ==
  {i \in 1..Len(windows.yielded) :
     windows.yielded[i][1] <= h /\ h < windows.yielded[i][2]}

WindowsInv ==
  LET y == windows.yielded
      n == Len(y)
  IN /\ (\A i \in 1..n : y[i][2] = y[i][1] + hour100)
     /\ (n > 0 => y[1][1] = windows.start)
     /\ (\A i \in 1..(n - 1) : y[i + 1][1] = y[i][2] /\ y[i][2] < windows.end)
     /\ (windows.pc = "exhausted" =>
           /\ (windows.start >= windows.end => n = 0)
           /\ (windows.start < windows.end => n > 0 /\ y[n][2] >= windows.end)
           /\ (\A h \in windows.start..(windows.end - 1) :
                 Cardinality(WindowsWith(h)) = 1))

\* C28: the windows are consecutive, 100 hours each, begin at start, stop
\* with the first that reaches end, are none when start >= end, cover
\* [start, end) once, and the iteration ends
C28_ConsecutiveWindows == [] WindowsInv /\ <>(windows.pc = "exhausted")

\* two windows were yielded and the second ends exactly at end
C28_TwoWindowsExact ==
  /\ windows.pc = "exhausted"
  /\ Len(windows.yielded) = 2
  /\ windows.yielded[2][2] = windows.end

----------------------------------------------------------------------------
(* The station list of task_download_all in npra_download *)

MaxStations == 3

\* trafficregpoints.csv as fetch_all_stations writes it: the station with
\* index id is row id + 1, and its firsttime is a timestamp or missing
StationTables ==
  UNION {[1..n -> {"NaT", "Timestamp"}] : n \in 0..MaxStations}

\* df[df["firsttime"].notnull()].index.tolist()
RECURSIVE notnull_index(_, _)
notnull_index(firsttime, n) ==
  IF n = 0 THEN <<>>
  ELSE IF firsttime[n] = "NaT" THEN notnull_index(firsttime, n - 1)
       ELSE Append(notnull_index(firsttime, n - 1), n - 1)

\* a Python slice lst[k:] of a list
slice_from(lst, k) ==
  LET lo == IF k < 0 THEN (IF Len(lst) + k < 0 THEN 0 ELSE Len(lst) + k)
            ELSE IF k > Len(lst) THEN Len(lst) ELSE k
  IN SubSeq(lst, lo + 1, Len(lst))

\* everything outside the station list
NotStationrun ==
  <<munichanges, municlean, until, munid2020, passes, closureVars, loadVars,
    popVars, incomeVars, walkbackVars, retryVars, checkpointVars,
    windows, country>>

InitStationrun ==
  /\ stationrun \in {[firsttime |-> f, resume |-> r, start_index |-> k,
                      idlist |-> <<>>, processed |-> <<>>, pc |-> "idlist"] :
                       f \in StationTables, r \in BOOLEAN,
                       k \in 0..(MaxStations + 1)}
  /\ windows = <<>>
  /\ country = <<>>
  /\ checkpoints = <<>>
  /\ call = <<>>
  /\ munichanges = <<>>
  /\ municlean = <<>>
  /\ until = Date_2020_01_01
  /\ munid2020 = <<>>
  /\ passes = <<>>
  /\ ClosureIdle /\ LoadIdle /\ PopIdle /\ IncomeIdle /\ WalkbackIdle

\* build the station processing list
BuildIdlist ==
  /\ stationrun.pc = "idlist"
  /\ LET ids == notnull_index(stationrun.firsttime, Len(stationrun.firsttime))
     IN stationrun' =
          [stationrun EXCEPT
             !.idlist = IF stationrun.resume THEN slice_from(ids, stationrun.start_index)
                        ELSE ids,
             !.pc = "for"]
  /\ UNCHANGED NotStationrun

\* one turn of for mpid in idlist
ProcessStation ==
  /\ stationrun.pc = "for"
  /\ Len(stationrun.processed) < Len(stationrun.idlist)
  /\ stationrun' =
       [stationrun EXCEPT
          !.processed = Append(@, stationrun.idlist[Len(stationrun.processed) + 1])]
  /\ UNCHANGED NotStationrun

\* the loop is over
DownloadFinished ==
  /\ stationrun.pc = "for"
  /\ Len(stationrun.processed) = Len(stationrun.idlist)
  /\ stationrun' = [stationrun EXCEPT !.pc = "finished"]
  /\ UNCHANGED NotStationrun

NextStationrun == BuildIdlist \/ ProcessStation \/ DownloadFinished

SpecStationrun == InitStationrun /\ [][NextStationrun]_vars

\* the stations with a firsttime and an index of at least k, in index order
RECURSIVE StationsFrom(_, _, _)
StationsFrom(firsttime, k, n) ==
  IF n = 0 THEN <<>>
  ELSE IF firsttime[n] /= "NaT" /\ n - 1 >= k
       THEN Append(StationsFrom(firsttime, k, n - 1), n - 1)
       ELSE StationsFrom(firsttime, k, n - 1)

\* C29: a run in resume mode processes exactly the stations with a
\* firsttime whose index is at least start_index, in index order
C29_ResumeFromStationIndex ==
  stationrun.pc = "finished" /\ stationrun.resume =>
    stationrun.processed =
      StationsFrom(stationrun.firsttime, stationrun.start_index,
                   Len(stationrun.firsttime))

\* C29 (what the slice does): a run in resume mode leaves out the first
\* start_index stations of those with a firsttime
C29_ResumeFromListPosition ==
  stationrun.pc = "finished" /\ stationrun.resume =>
    LET ids == notnull_index(stationrun.firsttime, Len(stationrun.firsttime))
    IN /\ Len(stationrun.processed) =
            (IF Len(ids) > stationrun.start_index
             THEN Len(ids) - stationrun.start_index ELSE 0)
       /\ \A i \in 1..Len(stationrun.processed) :
            stationrun.processed[i] = ids[i + stationrun.start_index]

----------------------------------------------------------------------------
(* fetch_country of get_entsoe_ActGen_A73_entsoe_lib: two worker threads
   run fetch_day for the days of the range and share unit_cache *)

MaxDays == 3
max_workers == 2

\* the generation units a response can name; a unit list is a set of them
Units == {"unit_a", "unit_b"}
UnitLists == SUBSET Units

\* pd.date_range(start=start, end=end, freq="D")
all_days == 1..MaxDays

Workers == 1..max_workers

IdleWorker == [pc |-> "idle", day |-> 0, df_units |-> {}]

\* unit_cache[cta] after the XML answer, written whatever the list holds
cache_after_xml_unguarded(unit_cache, df_units) == {df_units}

\* if not df_units.empty: unit_cache[cta] = df_units.copy()
\* (unit_cache is the set of the lists stored under cta: none or one)
cache_after_xml(unit_cache, df_units) ==
  IF df_units /= {} THEN {df_units} ELSE unit_cache

\* everything outside fetch_country
NotCountry ==
  <<munichanges, municlean, until, munid2020, passes, closureVars, loadVars,
    popVars, incomeVars, walkbackVars, retryVars, checkpointVars,
    windows, stationrun>>

InitCountry ==
  /\ country = [unit_cache |-> {},
                queue |-> [i \in all_days |-> i],
                worker |-> [w \in Workers |-> IdleWorker],
                completed |-> {},
                frames |-> <<>>,
                pc |-> "as_completed"]
  /\ windows = <<>>
  /\ stationrun = <<>>
  /\ checkpoints = <<>>
  /\ call = <<>>
  /\ munichanges = <<>>
  /\ municlean = <<>>
  /\ until = Date_2020_01_01
  /\ munid2020 = <<>>
  /\ passes = <<>>
  /\ ClosureIdle /\ LoadIdle /\ PopIdle /\ IncomeIdle /\ WalkbackIdle

\* worker w ends fetch_day with a frame: its future is completed
Completed(w, frame, cache) ==
  country' = [country EXCEPT
                !.unit_cache = cache,
                !.worker[w] = IdleWorker,
                !.completed = @ \cup {<<country.worker[w].day, frame>>}]

\* a free worker takes the next submitted day and sends the numeric query:
\* safe_entsoe_query gives a frame with at least one unit, or None
StartDay(w) ==
  /\ country.worker[w].pc = "idle"
  /\ country.queue /= <<>>
  /\ \/ \E units \in UnitLists \ {{}} :
          country' = [country EXCEPT
                        !.queue = Tail(@),
                        !.worker[w] = [pc |-> "reshape", day |-> Head(country.queue),
                                       df_units |-> units]]
     \/ country' = [country EXCEPT
                      !.queue = Tail(@),
                      !.worker[w] = [pc |-> "fallback", day |-> Head(country.queue),
                                     df_units |-> {}]]
  /\ UNCHANGED NotCountry

\* the numeric frame is reshaped, its unit list cached and the frame
\* returned; or the reshaping raises and the fallback follows
Reshape(w) ==
  /\ country.worker[w].pc = "reshape"
  /\ \/ Completed(w, "numeric", {country.worker[w].df_units})
     \/ country' = [country EXCEPT !.worker[w].pc = "fallback",
                                   !.worker[w].df_units = {}]
  /\ UNCHANGED NotCountry

\* if cta in unit_cache and not unit_cache[cta].empty
FallbackTest(w) ==
  /\ country.worker[w].pc = "fallback"
  /\ country' = [country EXCEPT
                   !.worker[w].pc =
                      IF country.unit_cache /= {} /\ country.unit_cache /= {{}}
                      THEN "copy" ELSE "xml"]
  /\ UNCHANGED NotCountry

\* df_units = unit_cache[cta].copy(), then the filled frame
FallbackCopy(w) ==
  /\ country.worker[w].pc = "copy"
  /\ country.unit_cache /= {}
  /\ Completed(w, "filled", country.unit_cache)
  /\ UNCHANGED NotCountry

\* the XML request: status 200 with a unit list (maybe empty), another
\* answer, or an exception; always a filled frame
FallbackXml(w) ==
  /\ country.worker[w].pc = "xml"
  /\ \/ \E units \in UnitLists :
          Completed(w, "filled", cache_after_xml(country.unit_cache, units))
     \/ Completed(w, "filled", country.unit_cache)
     \/ Completed(w, "filled_nan", country.unit_cache)
  /\ UNCHANGED NotCountry

\* for f in as_completed(futures): frames.append(f.result())
Collect ==
  /\ country.pc = "as_completed"
  /\ \E f \in country.completed :
       country' = [country EXCEPT !.completed = @ \ {f},
                                  !.frames = Append(@, f)]
  /\ UNCHANGED NotCountry

\* all futures were seen: the frames are concatenated and returned
ReturnFrames ==
  /\ country.pc = "as_completed"
  /\ Len(country.frames) = MaxDays
  /\ country' = [country EXCEPT !.pc = "return"]
  /\ UNCHANGED NotCountry

NextCountry ==
  \/ \E w \in Workers : StartDay(w)
  \/ \E w \in Workers : Reshape(w)
  \/ \E w \in Workers : FallbackTest(w)
  \/ \E w \in Workers : FallbackCopy(w)
  \/ \E w \in Workers : FallbackXml(w)
  \/ Collect
  \/ ReturnFrames

SpecCountry == InitCountry /\ [][NextCountry]_vars

\* the frames of day d among those collected
FramesOfDay(d) == {i \in 1..Len(country.frames) : country.frames[i][1] = d}

OneFramePerDay ==
  /\ \A d \in all_days : Cardinality(FramesOfDay(d)) <= 1
  /\ country.pc = "return" =>
       /\ Len(country.frames) = Cardinality(all_days)
       /\ \A d \in all_days : Cardinality(FramesOfDay(d)) = 1

NonEmptyListStays ==
  country.unit_cache /= {} /\ country.unit_cache /= {{}} =>
    country'.unit_cache /= {} /\ country'.unit_cache /= {{}}

============================================================================
